---- MODULE Spec2Model ----
(***************************************************************************)
(* Model of the multilingual translation application:                      *)
(*   - the POST /api/translate route handler (src/app/api/translate/route) *)
(*   - translateText, the Gemini client wrapper (src/utils/gemini.ts)      *)
(*   - the language picker (LanguageSelectionModal) and the page (Home)    *)
(* JavaScript values are modelled with their run-time behaviour           *)
(* (truthiness, .length of non-strings, destructuring of null, JSON.parse) *)
(* because the route casts the request body without checking it.           *)
(***************************************************************************)
EXTENDS Integers, Sequences, FiniteSets, TLC

----------------------------------------------------------------------------
(* Bounds of the model *)

\* number of requests the endpoint handles with the full range of bodies
MaxRequests == 1
\* number of requests the endpoint handles concurrently
MaxConcurrent == 2
\* how far beyond the 140-character limit the sampled texts go
MaxOver == 1
\* longest targetLanguages array a caller posts
MaxArrLen == 4
\* how many entries of COMMON_LANGUAGES the picker shows
CatalogSize == 4
\* how many of them the user of the page with the endpoint behind it clicks
UiLanguages == 3
\* how many requests whose fetch has rejected are still at the route
MaxAbandoned == 1

(* Program constants *)

\* route.ts: text.length > 140
ApiMaxChars == 140
\* route.ts: targetLanguages.length !== 3
ApiLangCount == 3
\* LanguageSelectionModal: selectedLanguages.length >= 3 / === 3
PickerLimit == 3
\* FullscreenTextInput: text.length > 140
FormMaxChars == 140

COMMON_LANGUAGES ==
  << "en", "es", "zh", "hi", "ar", "bn", "fr", "ru", "pt", "de",
     "ja", "sw", "mwu", "fa", "ur", "it", "ko", "vi", "ta" >>

Min(a, b) == IF a < b THEN a ELSE b

\* the part of the catalog the model works with
Catalog == SubSeq(COMMON_LANGUAGES, 1, Min(CatalogSize, Len(COMMON_LANGUAGES)))
Codes == { Catalog[i] : i \in 1..Len(Catalog) }
UiCodes == { Catalog[i] : i \in 1..Min(UiLanguages, Len(Catalog)) }

\* the requests in flight at the endpoint
ReqIds == 1..MaxConcurrent
\* those that carry the full range of bodies
SampledIds == 1..Min(MaxRequests, MaxConcurrent)

----------------------------------------------------------------------------
(* JavaScript values as they come out of request.json().                   *)
(* t: the run-time type; n: the length of a string, the value of a number; *)
(* items: the elements of an array.                                        *)

JUndefined == [t |-> "undefined", n |-> 0, items |-> << >>]
JNull      == [t |-> "null",      n |-> 0, items |-> << >>]
JNum(k)    == [t |-> "number",    n |-> k, items |-> << >>]
JStr(len)  == [t |-> "string",    n |-> len, items |-> << >>]
JArr(s)    == [t |-> "array",     n |-> Len(s), items |-> s]

\* ToBoolean: what `!v` negates
Truthy(v) ==
  CASE v.t = "undefined" -> FALSE
    [] v.t = "null"      -> FALSE
    [] v.t = "number"    -> v.n # 0
    [] v.t = "string"    -> v.n # 0
    [] OTHER             -> TRUE

\* v.length: a number for strings and arrays, undefined for the rest
\* (only read of truthy values, so it never throws)
JsLength(v) ==
  IF v.t \in {"string", "array"}
    THEN [defined |-> TRUE, n |-> v.n]
    ELSE [defined |-> FALSE, n |-> 0]

\* l > k, false when l is undefined
JsGreater(l, k) == l.defined /\ l.n > k
\* l !== k, true when l is undefined
JsStrictNe(l, k) == ~l.defined \/ l.n # k

----------------------------------------------------------------------------
(* Request bodies a caller can POST *)

\* request.json() rejects: the body is not JSON
MalformedBody == [kind |-> "malformed", text |-> JUndefined, targetLanguages |-> JUndefined]
\* the body is the JSON value null
NullBody == [kind |-> "null", text |-> JUndefined, targetLanguages |-> JUndefined]
\* a JSON object; a key that is absent reads as undefined
ObjectBody(text, langs) == [kind |-> "object", text |-> text, targetLanguages |-> langs]

Prefix(n) == SubSeq(Catalog, 1, Min(n, Len(Catalog)))

\* a three-element array that repeats a code
DupArray == << Catalog[1], Catalog[1], Catalog[2] >>

\* texts: absent, null, a number, strings of length 0, 1 and around the limit
TextSamples ==
  { JUndefined, JNull, JNum(5), JStr(0), JStr(1) }
    \cup { JStr(n) : n \in ApiMaxChars .. ApiMaxChars + MaxOver }

\* targetLanguages: absent, null, a three-character string, arrays of codes
LangSamples ==
  { JUndefined, JNull, JStr(ApiLangCount), JArr(DupArray) }
    \cup { JArr(Prefix(n)) : n \in 0..MaxArrLen }

Bodies ==
  { MalformedBody, NullBody }
    \cup { ObjectBody(t, l) : t \in TextSamples, l \in LangSamples }

----------------------------------------------------------------------------
(* Responses of the route *)

InvalidTextMsg == "Text is required and must be up to 140 characters."
InvalidLanguageCountMsg == "Please select exactly 3 target languages."
GenericErrorMsg == "An error occurred during translation."
TranslationFailedMsg == "Translation failed"

ErrorResponse(msg, status) == [status |-> status, body |-> [error |-> msg]]
\* fault variant: NextResponse.json(translations), without the envelope
OkResponseBare(translations) == [status |-> 200, body |-> translations]
\* NextResponse.json({ translations })
OkResponse(translations) == [status |-> 200, body |-> [translations |-> translations]]
NoResponse == [status |-> 0, body |-> [none |-> TRUE]]

----------------------------------------------------------------------------
(* route.ts, validation *)

\* const { text, targetLanguages } = (await request.json()) as TranslateRequestBody
\* rejects for a body that is not JSON, throws TypeError for null
Destructure(b) ==
  CASE b.kind = "malformed" -> [ok |-> FALSE, error |-> "Unexpected token in JSON"]
    [] b.kind = "null"      -> [ok |-> FALSE, error |-> "Cannot destructure property 'text' of null"]
    [] OTHER                -> [ok |-> TRUE, error |-> "none"]

\* fault variant: the limit off by one
TextRejectedOffByOne(text) == ~Truthy(text) \/ JsGreater(JsLength(text), ApiMaxChars + 1)
\* if (!text || text.length > 140)
TextRejected(text) == ~Truthy(text) \/ JsGreater(JsLength(text), ApiMaxChars)

\* fault variant: > in place of !==
LanguagesRejectedOnlyLonger(langs) == ~Truthy(langs) \/ JsGreater(JsLength(langs), ApiLangCount)
\* if (!targetLanguages || targetLanguages.length !== 3)
LanguagesRejected(langs) == ~Truthy(langs) \/ JsStrictNe(JsLength(langs), ApiLangCount)

\* fault variant: the two checks in the other order
ValidateSwapped(b) ==
  IF ~Destructure(b).ok
    THEN [verdict |-> "threw", rules |-> << >>]
  ELSE IF LanguagesRejected(b.targetLanguages)
    THEN [verdict |-> "InvalidLanguageCount", rules |-> << "languages" >>]
  ELSE IF TextRejected(b.text)
    THEN [verdict |-> "InvalidText", rules |-> << "languages", "text" >>]
  ELSE [verdict |-> "ok", rules |-> << "languages", "text" >>]
\* The rules in the order the handler evaluates them, with the verdict:
\* "threw" (the body could not be read), "InvalidText", "InvalidLanguageCount", "ok"
Validate(b) ==
  IF ~Destructure(b).ok
    THEN [verdict |-> "threw", rules |-> << >>]
  ELSE IF TextRejected(b.text)
    THEN [verdict |-> "InvalidText", rules |-> << "text" >>]
  ELSE IF LanguagesRejected(b.targetLanguages)
    THEN [verdict |-> "InvalidLanguageCount", rules |-> << "text", "languages" >>]
  ELSE [verdict |-> "ok", rules |-> << "text", "languages" >>]

----------------------------------------------------------------------------
(* State *)

VARIABLES
  \* the endpoint, per request
  pc,              \* "idle", "awaitModel" (suspended in sendMessage), "done"
  body,            \* the body the request carried
  rules,           \* the validation rules the handler evaluated, in order
  translateCalls,  \* the arguments of each translateText call of the request
  sent,            \* the messages the request sent to the model
  outcome,         \* how the model settled the request's sendMessage
  thrown,          \* the error translateText threw, "none" if it did not
  response,        \* the response of the route
  \* gemini.ts, module level: shared by all requests
  generationConfig,
  \* the page (Home)
  inputText,
  isModalOpen,
  selectedLanguages,
  translations,
  isLoading,
  error,
  \* the language picker (LanguageSelectionModal)
  modalSelected,   \* its selectedLanguages state
  \* the page's fetch("/api/translate") in flight
  fetch,
  overlap,         \* a fetch was started while another was in flight
  \* the textarea's content at the most recent submission of the form
  typed,
  \* the most recent user event and the callbacks it invoked
  lastEvent

apiVars == << pc, body, rules, translateCalls, sent, outcome, thrown, response,
             generationConfig >>

pageVars == << inputText, isModalOpen, selectedLanguages, translations, isLoading, error >>

uiVars == << pageVars, modalSelected, fetch, overlap, lastEvent, typed >>

vars == << apiVars, uiVars >>

----------------------------------------------------------------------------
(* gemini.ts, translateText *)

NoPrompt == [text |-> JUndefined, langs |-> << >>]

\* promptTemplate: the text and targetLanguages.join(", ") placed in the
\* instruction; join exists on arrays only, so anything else throws TypeError
promptTemplate(userMessage, targetLanguages) ==
  IF targetLanguages.t = "array"
    THEN [ok |-> TRUE, error |-> "none",
          prompt |-> [text |-> userMessage, langs |-> targetLanguages.items]]
    ELSE [ok |-> FALSE, error |-> "targetLanguages.join is not a function",
          prompt |-> NoPrompt]

\* const generationConfig = { temperature: 1, topP: 0.95, responseMimeType }
GenerationConfig ==
  [temperature |-> 1, topPPercent |-> 95, responseMimeType |-> "application/json"]

\* the prompts the requests have sent to the model so far, in request order
RECURSIVE PromptsSent(_)
PromptsSent(n) ==
  IF n = 0
    THEN << >>
    ELSE PromptsSent(n - 1) \o [i \in 1..Len(sent[n]) |-> sent[n][i].prompt]

\* fault variant: one chat session at module level, used by every call
startChatShared ==
  [history |-> PromptsSent(MaxConcurrent), config |-> generationConfig]
\* model.startChat({ generationConfig }): a new session with an empty history
startChat == [history |-> << >>, config |-> generationConfig]

\* chatSession.sendMessage(prompt): what goes to the model
sendMessage(chatSession, prompt) ==
  [history |-> chatSession.history, prompt |-> prompt, config |-> chatSession.config]

\* translateText up to its first await: the error thrown before the try
\* block, or the messages sent to the model
TranslateStart(userMessage, targetLanguages) ==
  LET p == promptTemplate(userMessage, targetLanguages)
  IN  IF p.ok
        THEN [threw |-> "none", sends |-> << sendMessage(startChat, p.prompt) >>]
        ELSE [threw |-> p.error, sends |-> << >>]

(* The external model: how the pending sendMessage settles *)

\* the text of a reply.  wf: it is JSON; shape: the kind of JSON value; keys:
\* for an object, its keys; values: what the members of an object or array
\* are ("string", "number", "object"); for a number, a boolean or a string,
\* "falsy" when it is 0, false or ""; "none" otherwise
NotJson == [wf |-> FALSE, shape |-> "none", keys |-> {}, values |-> "none"]
JsonText(shape, keys, values) ==
  [wf |-> TRUE, shape |-> shape, keys |-> keys, values |-> values]

Requested(prompt) == { prompt.langs[i] : i \in 1..Len(prompt.langs) }

\* the reply the system instruction asks for: a flat mapping from each
\* requested code to a string
CorrectReply(prompt) == JsonText("object", Requested(prompt), "string")

\* not JSON; null; 42; 0; false; ""; [1, 2]; [{"en": "Hi"}]; the mapping
\* asked for; a mapping to numbers; a mapping to objects
\* ({"en": {"text": "Hi"}, ...}); a mapping without one of the codes; a
\* mapping with one code more
ReplyTexts(prompt) ==
  { NotJson,
    JsonText("null", {}, "none"),
    JsonText("number", {}, "none"),
    JsonText("number", {}, "falsy"),
    JsonText("boolean", {}, "falsy"),
    JsonText("string", {}, "falsy"),
    JsonText("array", {}, "number"),
    JsonText("array", {}, "object"),
    CorrectReply(prompt),
    JsonText("object", Requested(prompt), "number"),
    JsonText("object", Requested(prompt), "object"),
    JsonText("object",
             Requested(prompt) \ {prompt.langs[i] : i \in {1} \cap DOMAIN prompt.langs},
             "string") }
    \cup { JsonText("object", Requested(prompt) \cup {c}, "string") : c \in Codes }

NoOutcome == [kind |-> "none", cause |-> "none", text |-> NotJson]

Outcomes(prompt) ==
  { [kind |-> "reject", cause |-> c, text |-> NotJson] :
      c \in {"fetch failed", "API key not valid"} }
    \cup { [kind |-> "blocked", cause |-> "Response was blocked", text |-> NotJson] }
    \cup { [kind |-> "reply", cause |-> "none", text |-> t] : t \in ReplyTexts(prompt) }

NoValue == [t |-> "undefined", keys |-> {}, values |-> "none"]

\* JSON.parse(responseText): the value, or a SyntaxError
JSONparse(txt) ==
  IF txt.wf
    THEN [ok |-> TRUE, error |-> "none",
          value |-> [t |-> txt.shape, keys |-> txt.keys, values |-> txt.values]]
    ELSE [ok |-> FALSE, error |-> "Unexpected token in JSON", value |-> NoValue]

\* the error the try block runs into, "none" when it completes
UnderlyingError(o) ==
  CASE o.kind \in {"reject", "blocked"} -> o.cause
    [] OTHER -> JSONparse(o.text).error

\* translateText from the await on: the parsed reply is returned as it is;
\* whatever the try block throws is replaced by Error("Translation failed")
TranslateFinish(o) ==
  IF UnderlyingError(o) = "none"
    THEN [threw |-> "none", value |-> JSONparse(o.text).value]
    ELSE [threw |-> TranslationFailedMsg, value |-> NoValue]

\* fault variant: the error's message is put in the response
CatchResponseLeaks(err) == ErrorResponse(err, 500)
\* route.ts catch block: the error is logged, the response is fixed
CatchResponse(err) == ErrorResponse(GenericErrorMsg, 500)

InitApi ==
  /\ pc = [r \in ReqIds |-> "idle"]
  /\ body = [r \in ReqIds |-> MalformedBody]
  /\ rules = [r \in ReqIds |-> << >>]
  /\ translateCalls = [r \in ReqIds |-> << >>]
  /\ sent = [r \in ReqIds |-> << >>]
  /\ outcome = [r \in ReqIds |-> NoOutcome]
  /\ thrown = [r \in ReqIds |-> "none"]
  /\ response = [r \in ReqIds |-> NoResponse]
  /\ generationConfig = GenerationConfig

----------------------------------------------------------------------------
(* route.ts, POST, and translateText: one action per stretch of the handler
   between two suspensions *)

\* The request arrives: POST runs to `await request.json()`.
POST(r, b) ==
  /\ pc[r] = "idle"
  /\ pc' = [pc EXCEPT ![r] = "readBody"]
  /\ body' = [body EXCEPT ![r] = b]
  /\ UNCHANGED << rules, translateCalls, sent, outcome, thrown, response,
                  generationConfig >>

\* request.json() settles: the destructuring and the two checks; a request
\* that passes calls translateText, which runs to `await sendMessage(prompt)`
\* or throws building the prompt, and POST is suspended in
\* `await translateText(...)`; any other request is answered here.
BodyRead(r) ==
  /\ pc[r] = "readBody"
  /\ rules' = [rules EXCEPT ![r] = Validate(body[r]).rules]
  /\ LET b == body[r]
         v == Validate(b).verdict
         t == TranslateStart(b.text, b.targetLanguages)
     IN  CASE v = "threw" ->
                /\ response' = [response EXCEPT ![r] = CatchResponse(Destructure(b).error)]
                /\ pc' = [pc EXCEPT ![r] = "done"]
                /\ UNCHANGED << translateCalls, sent, thrown >>
           [] v = "InvalidText" ->
                /\ response' = [response EXCEPT ![r] = ErrorResponse(InvalidTextMsg, 400)]
                /\ pc' = [pc EXCEPT ![r] = "done"]
                /\ UNCHANGED << translateCalls, sent, thrown >>
           [] v = "InvalidLanguageCount" ->
                /\ response' = [response EXCEPT ![r] = ErrorResponse(InvalidLanguageCountMsg, 400)]
                /\ pc' = [pc EXCEPT ![r] = "done"]
                /\ UNCHANGED << translateCalls, sent, thrown >>
           [] OTHER ->
                /\ translateCalls' = [translateCalls EXCEPT ![r] =
                       Append(@, [userMessage |-> b.text, targetLanguages |-> b.targetLanguages])]
                /\ sent' = [sent EXCEPT ![r] = @ \o t.sends]
                /\ thrown' = [thrown EXCEPT ![r] = t.threw]
                /\ pc' = [pc EXCEPT ![r] =
                       IF t.threw = "none" THEN "awaitModel" ELSE "awaitTranslate"]
                /\ response' = response
  /\ UNCHANGED << body, outcome, generationConfig >>

\* The model settles the pending sendMessage.  A rejection, or a blocked
\* reply on which response.text() throws, goes through translateText's catch
\* block; otherwise translateText is suspended in `await result.response.text()`.
ModelSettles(r) ==
  /\ pc[r] = "awaitModel"
  /\ \E o \in Outcomes(sent[r][1].prompt) :
       /\ outcome' = [outcome EXCEPT ![r] = o]
       /\ IF o.kind = "reply"
            THEN /\ pc' = [pc EXCEPT ![r] = "awaitText"]
                 /\ thrown' = thrown
            ELSE /\ pc' = [pc EXCEPT ![r] = "awaitTranslate"]
                 /\ thrown' = [thrown EXCEPT ![r] = TranslateFinish(o).threw]
  /\ UNCHANGED << body, rules, translateCalls, sent, response, generationConfig >>

\* translateText resumes with the reply's text: JSON.parse, then return, or
\* the catch block and throw.
TextRead(r) ==
  /\ pc[r] = "awaitText"
  /\ thrown' = [thrown EXCEPT ![r] = TranslateFinish(outcome[r]).threw]
  /\ pc' = [pc EXCEPT ![r] = "awaitTranslate"]
  /\ UNCHANGED << body, rules, translateCalls, sent, outcome, response,
                  generationConfig >>

\* POST resumes from `await translateText(...)`: NextResponse.json with the
\* translations, or the catch block.
RouteResumes(r) ==
  /\ pc[r] = "awaitTranslate"
  /\ response' = [response EXCEPT ![r] =
         IF thrown[r] = "none"
           THEN OkResponse(TranslateFinish(outcome[r]).value)
           ELSE CatchResponse(thrown[r])]
  /\ pc' = [pc EXCEPT ![r] = "done"]
  /\ UNCHANGED << body, rules, translateCalls, sent, outcome, thrown,
                  generationConfig >>

\* requests are numbered in the order they arrive
NextRequest(r) ==
  /\ pc[r] = "idle"
  /\ \A q \in ReqIds : pc[q] = "idle" => r <= q

\* the handler is done with the request: the slot is free again
ResetRequest(r) ==
  /\ pc' = [pc EXCEPT ![r] = "idle"]
  /\ body' = [body EXCEPT ![r] = MalformedBody]
  /\ rules' = [rules EXCEPT ![r] = << >>]
  /\ translateCalls' = [translateCalls EXCEPT ![r] = << >>]
  /\ sent' = [sent EXCEPT ![r] = << >>]
  /\ outcome' = [outcome EXCEPT ![r] = NoOutcome]
  /\ thrown' = [thrown EXCEPT ![r] = "none"]
  /\ response' = [response EXCEPT ![r] = NoResponse]
  /\ generationConfig' = generationConfig

----------------------------------------------------------------------------
(* FullscreenTextInput.tsx *)

\* The text typed into the textarea: lead and trail count the whitespace
\* characters at its ends, core the characters between them (core = 0: the
\* text is whitespace only).
Typed(lead, core, trail) == [lead |-> lead, core |-> core, trail |-> trail]
TypedLength(t) == t.lead + t.core + t.trail

\* text.trim()
Trim(t) == IF t.core = 0 THEN Typed(0, 0, 0) ELSE Typed(0, t.core, 0)

TypedSamples ==
  { Typed(l, c, t) :
      l \in 0..1,
      c \in {0, 1} \cup (FormMaxChars .. FormMaxChars + MaxOver),
      t \in 0..1 }

\* fault variant: the form's limit is one above the route's
FormSubmitCallsLongerLimit(t) ==
  IF TypedLength(Trim(t)) = 0 \/ TypedLength(t) > FormMaxChars + 1
    THEN << >>
    ELSE << [fn |-> "onSubmit", arg |-> JStr(TypedLength(Trim(t)))] >>
\* fault variant: the text is passed on as typed
FormSubmitCallsUntrimmed(t) ==
  IF TypedLength(Trim(t)) = 0 \/ TypedLength(t) > FormMaxChars
    THEN << >>
    ELSE << [fn |-> "onSubmit", arg |-> JStr(TypedLength(t))] >>
\* handleSubmit of the form: the arguments of its onSubmit calls
\* if (text.trim().length === 0 || text.length > 140) return; onSubmit(text.trim())
FormSubmitCalls(t) ==
  IF TypedLength(Trim(t)) = 0 \/ TypedLength(t) > FormMaxChars
    THEN << >>
    ELSE << [fn |-> "onSubmit", arg |-> JStr(TypedLength(Trim(t)))] >>

----------------------------------------------------------------------------
(* LanguageSelectionModal.tsx *)

Includes(s, code) == \E i \in 1..Len(s) : s[i] = code

\* prev.filter((c) => c !== code)
Without(s, code) == SelectSeq(s, LAMBDA c : c # code)

\* toggleLanguage
toggleLanguage(prev, code) ==
  IF Includes(prev, code) THEN Without(prev, code) ELSE Append(prev, code)

\* fault variant: the checkboxes are never disabled
CheckboxNeverDisabled(selected, code) == FALSE
\* disabled={!selectedLanguages.includes(lang.code) && selectedLanguages.length >= 3}
CheckboxDisabled(selected, code) ==
  ~Includes(selected, code) /\ Len(selected) >= PickerLimit

\* a click on the checkbox of a language: a disabled checkbox fires no onChange
PressCheckbox(selected, code) ==
  IF CheckboxDisabled(selected, code) THEN selected ELSE toggleLanguage(selected, code)

\* disabled={selectedLanguages.length !== 3}
SubmitDisabled(selected) == Len(selected) # PickerLimit

\* handleSubmit of the picker: the callbacks it invokes, in order
handleSubmit(selected) ==
  IF Len(selected) = PickerLimit
    THEN << [fn |-> "onSelectLanguages", arg |-> selected],
            [fn |-> "onClose", arg |-> << >>] >>
    ELSE << >>

\* fault variant: neither the button nor the handler checks the count
PressSubmitUnchecked(selected) ==
  << [fn |-> "onSelectLanguages", arg |-> selected],
     [fn |-> "onClose", arg |-> << >>] >>
\* a click on Submit: a disabled button fires no onClick
PressSubmit(selected) ==
  IF SubmitDisabled(selected) THEN << >> ELSE handleSubmit(selected)

----------------------------------------------------------------------------
(* page.tsx *)

JsNull == [t |-> "null", keys |-> {}, values |-> "none"]
NoError == "null"

\* ToBoolean of a parsed reply: undefined, null, 0, false and "" are falsy,
\* every other value (objects and arrays included) is truthy
TruthyValue(v) == v.t \notin {"null", "undefined"} /\ v.values # "falsy"

NoFetch == [state |-> "none", body |-> MalformedBody, req |-> 0]

\* name: the event; selection, code: for a click in the picker, its selection
\* before the click and the language clicked; calls: the callbacks invoked
NoTyped == [lead |-> 0, core |-> 0, trail |-> 0]
NoEvent == [name |-> "none", selection |-> << >>, code |-> "", calls |-> << >>]
Event(name, selection, code, calls) ==
  [name |-> name, selection |-> selection, code |-> code, calls |-> calls]

\* fault variant: the form stays rendered while loading
FormVisibleWhileLoading == ~TruthyValue(translations)
\* what the page renders
FormVisible == ~TruthyValue(translations) /\ ~isLoading
LoadingVisible == isLoading
\* TranslationDisplay puts each value of Object.entries(translations) in a
\* span.  Object.entries(translations): the members of an object, the elements of
\* an array (the arrays of the model are not empty), nothing for a number
HasEntries(v) ==
  \/ v.t = "object" /\ v.keys # {}
  \/ v.t = "array" /\ v.values # "none"
\* <span>{text}</span>: a string, a number or null renders, a plain object
\* as a child makes React throw, and with no error boundary nothing of the
\* result (the list, Start Over) is displayed
RenderThrows(v) == HasEntries(v) /\ v.values = "object"
ResultVisible == TruthyValue(translations) /\ ~RenderThrows(translations)
ModalVisible == isModalOpen

InitUi ==
  /\ inputText = JStr(0)
  /\ isModalOpen = FALSE
  /\ selectedLanguages = << >>
  /\ translations = JsNull
  /\ isLoading = FALSE
  /\ error = NoError
  /\ modalSelected = << >>
  /\ fetch = NoFetch
  /\ overlap = FALSE
  /\ lastEvent = NoEvent
  /\ typed = NoTyped

\* The user submits the form with the text t typed in (what the
\* specification records of t is left to it).
\* handleTextSubmit: setInputText(text); setIsModalOpen(true)
FormSubmit(t) ==
  /\ FormVisible
  /\ LET calls == FormSubmitCalls(t)
     IN  /\ lastEvent' = Event("formSubmit", << >>, "", calls)
         /\ IF calls = << >>
              THEN UNCHANGED << inputText, isModalOpen >>
              ELSE /\ inputText' = calls[1].arg
                   /\ isModalOpen' = TRUE
  /\ UNCHANGED << selectedLanguages, translations, isLoading, error,
                  modalSelected, fetch, overlap, apiVars >>

\* The user clicks the checkbox of a language in the open picker.
ToggleClick(code) ==
  /\ ModalVisible
  /\ modalSelected' = PressCheckbox(modalSelected, code)
  /\ lastEvent' = Event("toggle", modalSelected, code, << >>)
  /\ UNCHANGED << pageVars, fetch, overlap, typed, apiVars >>

\* fault variant: without the effect on isOpen
CancelClickKeepsSelection ==
  /\ ModalVisible
  /\ isModalOpen' = FALSE
  /\ lastEvent' = Event("cancel", << >>, "", << [fn |-> "onClose", arg |-> << >>] >>)
  /\ UNCHANGED << inputText, selectedLanguages, translations, isLoading, error,
                  modalSelected, fetch, overlap, typed, apiVars >>
\* The user clicks Cancel: onClose, and the effect on isOpen clears the selection.
CancelClick ==
  /\ ModalVisible
  /\ isModalOpen' = FALSE
  /\ modalSelected' = << >>
  /\ lastEvent' = Event("cancel", << >>, "", << [fn |-> "onClose", arg |-> << >>] >>)
  /\ UNCHANGED << inputText, selectedLanguages, translations, isLoading, error,
                  fetch, overlap, typed, apiVars >>

\* The user clicks Submit in the picker.  With the callbacks invoked:
\* handleLanguagesSubmit up to its await of fetch (setSelectedLanguages,
\* setIsModalOpen(false), setIsLoading(true), setError(null), the request),
\* then onClose, then the effect that clears the picker's selection.
SubmitClick ==
  /\ ModalVisible
  /\ LET calls == PressSubmit(modalSelected)
     IN  /\ lastEvent' = Event("submit", modalSelected, "", calls)
         /\ IF calls = << >>
              THEN UNCHANGED << selectedLanguages, isModalOpen, isLoading, error,
                                modalSelected, fetch, overlap >>
              ELSE /\ selectedLanguages' = calls[1].arg
                   /\ isModalOpen' = FALSE
                   /\ isLoading' = TRUE
                   /\ error' = NoError
                   /\ fetch' = [state |-> "sent",
                                body |-> ObjectBody(inputText, JArr(calls[1].arg)),
                                req |-> 0]
                   /\ overlap' = (overlap \/ fetch.state # "none")
                   /\ modalSelected' = << >>
  /\ UNCHANGED << inputText, translations, typed, apiVars >>

\* fault variant: the text is kept
StartOverKeepsText ==
  /\ ResultVisible
  /\ selectedLanguages' = << >>
  /\ translations' = JsNull
  /\ error' = NoError
  /\ lastEvent' = Event("startOver", << >>, "", << >>)
  /\ UNCHANGED << inputText, isModalOpen, isLoading, modalSelected, fetch, overlap,
                  typed, apiVars >>
\* The user clicks Start Over on the result.  handleStartOver.
StartOver ==
  /\ ResultVisible
  /\ inputText' = JStr(0)
  /\ selectedLanguages' = << >>
  /\ translations' = JsNull
  /\ error' = NoError
  /\ lastEvent' = Event("startOver", << >>, "", << >>)
  /\ UNCHANGED << isModalOpen, isLoading, modalSelected, fetch, overlap, typed, apiVars >>

\* The request of the page reaches the route.
FetchArrives ==
  /\ fetch.state = "sent"
  /\ \E r \in ReqIds :
       /\ NextRequest(r)
       /\ POST(r, fetch.body)
       /\ fetch' = [fetch EXCEPT !.state = "handling", !.req = r]
  /\ UNCHANGED << pageVars, modalSelected, overlap, lastEvent, typed >>

\* response.ok
ResponseOk(resp) == resp.status >= 200 /\ resp.status <= 299

\* data.error || "An unexpected error occurred."
DataError(data) ==
  IF "error" \in DOMAIN data /\ data.error # ""
    THEN data.error
    ELSE "An unexpected error occurred."

\* data.translations
DataTranslations(data) ==
  IF "translations" \in DOMAIN data
    THEN data.translations
    ELSE [t |-> "undefined", keys |-> {}, values |-> "none"]

\* The response reaches the page: handleLanguagesSubmit from
\* `await response.json()` to its end.
FetchResponds ==
  /\ fetch.state = "handling"
  /\ pc[fetch.req] = "done"
  /\ LET data == response[fetch.req].body
     IN  IF ~ResponseOk(response[fetch.req])
           THEN /\ error' = DataError(data)
                /\ translations' = translations
           ELSE /\ translations' = DataTranslations(data)
                /\ error' = error
  /\ isLoading' = FALSE
  /\ fetch' = NoFetch
  /\ ResetRequest(fetch.req)
  /\ UNCHANGED << inputText, isModalOpen, selectedLanguages, modalSelected,
                  overlap, lastEvent, typed >>

\* fetch rejects (the network fails, the connection drops), or
\* response.json() throws: the catch block and finally.  Nothing in the route
\* reads request.signal: a handler that is suspended stays suspended and
\* runs on when what it awaits settles; a response that was on its way is lost.
FetchFails ==
  /\ fetch.state \in {"sent", "handling"}
  /\ error' = "Failed to fetch translations."
  /\ isLoading' = FALSE
  /\ fetch' = NoFetch
  /\ IF fetch.state = "handling" /\ pc[fetch.req] = "done"
       THEN ResetRequest(fetch.req)
       ELSE UNCHANGED apiVars
  /\ UNCHANGED << inputText, isModalOpen, selectedLanguages, translations,
                  modalSelected, overlap, lastEvent, typed >>

\* the request of a fetch that has rejected: nobody waits for its response
Abandoned(r) == pc[r] # "idle" /\ ~(fetch.state = "handling" /\ fetch.req = r)

\* The handler of an abandoned request has returned its response: the
\* connection is gone, the response is dropped.
ResponseDropped(r) ==
  /\ Abandoned(r)
  /\ pc[r] = "done"
  /\ ResetRequest(r)
  /\ UNCHANGED uiVars

----------------------------------------------------------------------------
(* Specifications *)

Init == InitApi /\ InitUi

\* the endpoint with any callers
Next ==
  \/ \E r \in SampledIds, b \in Bodies : NextRequest(r) /\ POST(r, b) /\ UNCHANGED uiVars
  \/ \E r \in ReqIds : BodyRead(r) /\ UNCHANGED uiVars
  \/ \E r \in ReqIds : ModelSettles(r) /\ UNCHANGED uiVars
  \/ \E r \in ReqIds : TextRead(r) /\ UNCHANGED uiVars
  \/ \E r \in ReqIds : RouteResumes(r) /\ UNCHANGED uiVars

Spec == Init /\ [][Next]_vars

\* the route has the page's request and has not answered it yet
HandlerSuspended == fetch.state = "handling" /\ pc[fetch.req] # "done"

\* the requests still at the route whose fetch has rejected
AbandonedIds == { r \in ReqIds : Abandoned(r) }

\* a connection that drops while the handler is suspended leaves its request
\* at the route: at most MaxAbandoned such requests are there at a time
MayDrop == HandlerSuspended => Cardinality(AbandonedIds) < MaxAbandoned

\* the texts typed into the form of that page: nothing, a blank, a text at
\* the limit and beyond it
UiTypedSamples ==
  { t \in TypedSamples :
      /\ t.core = 0 \/ t.core >= FormMaxChars
      /\ t.trail = 0
      /\ t.lead = 0 \/ t.core = 0 }

\* the replies of the model that the page tells apart: sendMessage rejects
\* (a 500); null and 0 (falsy: nothing to display); the mapping asked for
\* (displayed); a mapping to objects and an array of objects (the display
\* throws)
UiOutcomes(prompt) ==
  { o \in Outcomes(prompt) :
      \/ o.kind = "reject" /\ o.cause = "fetch failed"
      \/ o.kind = "reply"
           /\ o.text \in { JsonText("null", {}, "none"),
                            JsonText("number", {}, "falsy"),
                            CorrectReply(prompt),
                            JsonText("object", Requested(prompt), "object"),
                            JsonText("array", {}, "object") } }

\* sendMessage settles with one of those replies
UiModelSettles(r) ==
  /\ ModelSettles(r)
  /\ outcome'[r] \in UiOutcomes(sent[r][1].prompt)

\* the page in a browser, with the endpoint behind it.  The user types any of
\* UiTypedSamples and clicks the checkboxes of the first UiLanguages
\* languages, ticking and unticking in any order, cancels, submits and starts
\* over; the model replies with any of UiOutcomes; the fetch rejects at any
\* time, also while the handler is suspended, and the request it leaves at
\* the route runs on alongside the page's next request.
NextUi ==
  \/ \E t \in UiTypedSamples : FormSubmit(t) /\ UNCHANGED typed
  \/ \E c \in UiCodes : ToggleClick(c)
  \/ CancelClick
  \/ SubmitClick
  \/ StartOver
  \/ FetchArrives
  \/ \E r \in ReqIds : BodyRead(r) /\ UNCHANGED uiVars
  \/ \E r \in ReqIds : UiModelSettles(r) /\ UNCHANGED uiVars
  \/ \E r \in ReqIds : TextRead(r) /\ UNCHANGED uiVars
  \/ \E r \in ReqIds : RouteResumes(r) /\ UNCHANGED uiVars
  \/ FetchResponds
  \/ MayDrop /\ FetchFails
  \/ \E r \in ReqIds : ResponseDropped(r)

SpecUi == Init /\ [][NextUi]_vars

\* the page when whatever is pending gets done: the request reaches the route,
\* the model settles, and the fetch resolves or rejects
FairUi ==
  /\ WF_vars(FetchArrives)
  /\ \A r \in ReqIds : WF_vars(BodyRead(r) /\ UNCHANGED uiVars)
  /\ \A r \in ReqIds : WF_vars(UiModelSettles(r) /\ UNCHANGED uiVars)
  /\ \A r \in ReqIds : WF_vars(TextRead(r) /\ UNCHANGED uiVars)
  /\ \A r \in ReqIds : WF_vars(RouteResumes(r) /\ UNCHANGED uiVars)
  /\ WF_vars(FetchResponds \/ (MayDrop /\ FetchFails))

SpecUiFair == SpecUi /\ FairUi

\* the endpoint with concurrent callers: a valid request, one that repeats a
\* language, one with an empty text, one whose body is null
ConcurrentBodies ==
  { ObjectBody(JStr(1), JArr(Prefix(ApiLangCount))),
    ObjectBody(JStr(ApiMaxChars), JArr(DupArray)),
    ObjectBody(JStr(0), JArr(Prefix(ApiLangCount))),
    NullBody }

\* the response of a finished handler has gone out: the request is over
ResponseSent(r) ==
  /\ pc[r] = "done"
  /\ ResetRequest(r)
  /\ UNCHANGED uiVars

\* the requests arrive, and their handlers take their steps, in any order
NextConcurrent ==
  \/ \E r \in ReqIds, b \in ConcurrentBodies : POST(r, b) /\ UNCHANGED uiVars
  \/ \E r \in ReqIds : ResponseSent(r)
  \/ \E r \in ReqIds : BodyRead(r) /\ UNCHANGED uiVars
  \/ \E r \in ReqIds : ModelSettles(r) /\ UNCHANGED uiVars
  \/ \E r \in ReqIds : TextRead(r) /\ UNCHANGED uiVars
  \/ \E r \in ReqIds : RouteResumes(r) /\ UNCHANGED uiVars

SpecConcurrent == Init /\ [][NextConcurrent]_vars

\* the form and the picker, before any request is answered
NextForm ==
  \/ \E t \in TypedSamples : FormSubmit(t) /\ typed' = t
  \/ \E c \in Codes : ToggleClick(c)
  \/ CancelClick
  \/ SubmitClick

SpecForm == Init /\ [][NextForm]_vars

----------------------------------------------------------------------------
(* Vocabulary of the claims about the endpoint *)

\* the request has arrived
Handled(r) == pc[r] # "idle"
\* its body has been read and checked
Validated(r) == pc[r] \notin {"idle", "readBody"}
Done(r) == pc[r] = "done"
IsObject(b) == b.kind = "object"

\* the text is missing, empty or longer than 140 characters
TextMissingEmptyOrLong(text) ==
  \/ text.t \in {"undefined", "null"}
  \/ text.t = "string" /\ (text.n = 0 \/ text.n > 140)

\* a text of 1 to 140 characters
TextValid(text) == text.t = "string" /\ text.n >= 1 /\ text.n <= 140

\* the list is missing or its length is not 3
LangCountWrong(langs) ==
  \/ langs.t \in {"undefined", "null"}
  \/ langs.t = "array" /\ langs.n # 3

Distinct(s) == \A i, j \in 1..Len(s) : i # j => s[i] # s[j]

\* a list of exactly 3 pairwise distinct codes
LangsValid(langs) == langs.t = "array" /\ langs.n = 3 /\ Distinct(langs.items)

InvalidText400 ==
  [status |-> 400, body |-> [error |-> "Text is required and must be up to 140 characters."]]
InvalidLanguageCount400 ==
  [status |-> 400, body |-> [error |-> "Please select exactly 3 target languages."]]
Generic500 ==
  [status |-> 500, body |-> [error |-> "An error occurred during translation."]]

C2_Original ==
  \A r \in ReqIds :
    (Handled(r) /\ IsObject(body[r]) /\ LangCountWrong(body[r].targetLanguages))
      => /\ Validated(r) => (Done(r) /\ response[r] = InvalidLanguageCount400)
         /\ translateCalls[r] = << >>

\* C2 amended: a request whose text is valid (1 to 140 characters) and whose
\* targetLanguages is missing or has a length other than 3 is answered 400
\* with the InvalidLanguageCount message, and translateText is not invoked.
C2_InvalidLanguageCountRejected ==
  \A r \in ReqIds :
    (Handled(r) /\ IsObject(body[r]) /\ TextValid(body[r].text)
       /\ LangCountWrong(body[r].targetLanguages))
      => /\ Validated(r) => (Done(r) /\ response[r] = InvalidLanguageCount400)
         /\ translateCalls[r] = << >>
         /\ sent[r] = << >>

C2_Witness ==
  \E r \in ReqIds :
    /\ Done(r) /\ IsObject(body[r])
    /\ TextValid(body[r].text)
    /\ body[r].targetLanguages.t = "array" /\ body[r].targetLanguages.n = 2
    /\ response[r] = InvalidLanguageCount400

\* the model's reply is the mapping asked for: well-formed JSON, a flat
\* object of strings whose keys are the requested codes
RepliedCorrectly(r) ==
  /\ outcome[r].kind = "reply"
  /\ outcome[r].text.wf /\ outcome[r].text.shape = "object"
  /\ outcome[r].text.values = "string"
  /\ outcome[r].text.keys =
       { body[r].targetLanguages.items[i] : i \in 1..Len(body[r].targetLanguages.items) }

\* C3: a request with a text of 1 to 140 characters and 3 distinct codes
\* invokes translateText exactly once and, when the model replies with a
\* correct mapping, is answered 200 with a translations mapping whose keys
\* are exactly the 3 requested codes.
C3_ValidRequestTranslated ==
  \A r \in ReqIds :
    (Validated(r) /\ IsObject(body[r]) /\ TextValid(body[r].text)
       /\ LangsValid(body[r].targetLanguages))
      => /\ Len(translateCalls[r]) = 1
         /\ translateCalls[r][1] =
              [userMessage |-> body[r].text, targetLanguages |-> body[r].targetLanguages]
         /\ (Done(r) /\ RepliedCorrectly(r))
              => /\ response[r].status = 200
                 /\ DOMAIN response[r].body = {"translations"}
                 /\ response[r].body.translations.t = "object"
                 /\ response[r].body.translations.values = "string"
                 /\ response[r].body.translations.keys =
                      { body[r].targetLanguages.items[i] : i \in 1..3 }
                 /\ Cardinality(response[r].body.translations.keys) = 3

C3_Witness ==
  \E r \in ReqIds :
    /\ Done(r) /\ IsObject(body[r])
    /\ body[r].text = JStr(140)
    /\ LangsValid(body[r].targetLanguages)
    /\ RepliedCorrectly(r)
    /\ response[r].status = 200

\* the request passed both validation rules and translateText failed
TranslateFailed(r) ==
  /\ Done(r)
  /\ rules[r] = << "text", "languages" >>
  /\ translateCalls[r] # << >>
  /\ thrown[r] # "none"

\* the messages of the errors behind a failure
UnderlyingCauses ==
  { "fetch failed", "API key not valid", "Response was blocked",
    "Unexpected token in JSON", "targetLanguages.join is not a function",
    "Translation failed" }

\* C4: when translateText fails for a request that passed validation, the
\* response is 500 with exactly the generic message: the same for every
\* failure cause, and no part of the underlying error.
C4_FailureIsGeneric500 ==
  /\ \A r \in ReqIds :
       TranslateFailed(r)
         => /\ response[r] = Generic500
            /\ response[r].body.error \notin UnderlyingCauses
  /\ \A r1, r2 \in ReqIds :
       (TranslateFailed(r1) /\ TranslateFailed(r2)) => response[r1] = response[r2]

C4_Witness ==
  \E r \in ReqIds :
    /\ TranslateFailed(r)
    /\ outcome[r].kind = "reply" /\ ~outcome[r].text.wf
    /\ thrown[r] = "Translation failed"
    /\ response[r] = Generic500

\* the request breaks the text rule and the language-count rule
ViolatesBoth(b) ==
  /\ IsObject(b)
  /\ TextMissingEmptyOrLong(b.text)
  /\ LangCountWrong(b.targetLanguages)

\* C5: validation is fail-fast, text first: a request that breaks both rules
\* gets the InvalidText response only, and the language-count rule is
\* evaluated only after the text rule has passed.
C5_FailFastTextFirst ==
  \A r \in ReqIds :
    /\ (Validated(r) /\ ViolatesBoth(body[r]))
         => /\ response[r] = InvalidText400
            /\ rules[r] = << "text" >>
    /\ (\E i \in 1..Len(rules[r]) : rules[r][i] = "languages")
         => /\ rules[r] = << "text", "languages" >>
            /\ ~TextMissingEmptyOrLong(body[r].text)
            /\ response[r] # InvalidText400

C5_Witness ==
  \E r \in ReqIds :
    /\ Done(r) /\ ViolatesBoth(body[r])
    /\ body[r].text = JStr(0)
    /\ body[r].targetLanguages.t = "array" /\ body[r].targetLanguages.n = 4
    /\ rules[r] = << "text" >>
    /\ response[r] = InvalidText400

\* C6: every call that reaches translateText carries a text of 1 to 140
\* characters and a list of exactly 3 pairwise distinct language codes.
C6_CallsCarryValidRequest ==
  \A r \in ReqIds :
    \A i \in 1..Len(translateCalls[r]) :
      /\ TextValid(translateCalls[r][i].userMessage)
      /\ LangsValid(translateCalls[r][i].targetLanguages)

\* the model call threw, or the reply is not JSON
ModelOrParseFailure(r) ==
  \/ outcome[r].kind \in {"reject", "blocked"}
  \/ outcome[r].kind = "reply" /\ ~outcome[r].text.wf

\* translateText was called with the types its signature declares
TypedCall(c) == c.userMessage.t = "string" /\ c.targetLanguages.t = "array"

\* every translateText call that has the types its signature declares: one
\* model request, never a second one, and a failure of the model call or of
\* the parsing comes out as "Translation failed"
C7_TypedCalls ==
  \A r \in ReqIds :
    \A i \in 1..Len(translateCalls[r]) :
      /\ Len(sent[r]) <= 1
      /\ (Done(r) /\ ModelOrParseFailure(r))
           => /\ thrown[r] = "Translation failed"
              /\ Len(sent[r]) = 1
      /\ (Len(sent[r]) = 1)
           => /\ sent[r][1].prompt.text = translateCalls[r][i].userMessage
              /\ sent[r][1].prompt.langs = translateCalls[r][i].targetLanguages.items
              /\ thrown[r] \in {"none", "Translation failed"}
              /\ (Done(r) /\ thrown[r] # "none") => ModelOrParseFailure(r)
      /\ TypedCall(translateCalls[r][i]) => Len(sent[r]) = 1

\* C7: every translateText call makes exactly one model request and never
\* retries; when the model call throws or the reply is not JSON it fails after
\* that one request with "Translation failed", and every error that arises
\* inside translateText comes out as that error.
C7_OneRequestNoRetry ==
  \A r \in ReqIds :
    \A i \in 1..Len(translateCalls[r]) :
      /\ Len(sent[r]) = 1
      /\ sent[r][1].prompt.text = translateCalls[r][i].userMessage
      /\ thrown[r] \in {"none", "Translation failed"}
      /\ (Done(r) /\ ModelOrParseFailure(r)) => thrown[r] = "Translation failed"

\* C8: translateText returns successfully only when the reply is well-formed
\* JSON that is a flat mapping from language code to string; valid JSON of
\* any other shape makes it fail.
C8_ReplyShapeValidated ==
  \A r \in ReqIds :
    (Done(r) /\ translateCalls[r] # << >> /\ TypedCall(translateCalls[r][1])
       /\ outcome[r].kind = "reply" /\ thrown[r] = "none")
      => /\ outcome[r].text.wf
         /\ outcome[r].text.shape = "object"
         /\ outcome[r].text.values = "string"

----------------------------------------------------------------------------
(* Claims about the language picker *)

\* C9: in the language picker at most 3 languages are selected at any time,
\* and a click on a language that is not selected while 3 are selected
\* leaves the selection as it was.
C9_AtMostThreeSelected ==
  /\ Len(modalSelected) <= 3
  /\ (lastEvent.name = "toggle"
        /\ Len(lastEvent.selection) = 3
        /\ ~Includes(lastEvent.selection, lastEvent.code))
       => modalSelected = lastEvent.selection

C9_Witness ==
  /\ lastEvent.name = "toggle"
  /\ Len(lastEvent.selection) = 3
  /\ ~Includes(lastEvent.selection, lastEvent.code)
  /\ modalSelected = lastEvent.selection
  /\ isModalOpen

\* the step is a click on Submit in the picker
SubmitPressed == lastEvent' # lastEvent /\ lastEvent'.name = "submit"

\* the step sends a request to /api/translate
RequestSent == fetch' # fetch /\ fetch'.state = "sent"

\* C10: a click on Submit invokes onSelectLanguages only when exactly 3
\* languages are selected, with the list of these 3 pairwise distinct codes
\* (and then onClose); with fewer or more selected it calls neither, and no
\* request is sent.  A request is only ever sent for such a list.
C10_SubmitOnlyWithThree ==
  [][ /\ SubmitPressed =>
           IF Len(modalSelected) = 3
             THEN /\ lastEvent'.calls =
                       << [fn |-> "onSelectLanguages", arg |-> modalSelected],
                          [fn |-> "onClose", arg |-> << >>] >>
                  /\ Distinct(modalSelected)
                  /\ RequestSent
                  /\ ~isModalOpen'
             ELSE /\ lastEvent'.calls = << >>
                  /\ fetch' = fetch
                  /\ isModalOpen' = isModalOpen
                  /\ modalSelected' = modalSelected
                  /\ UNCHANGED << pageVars, apiVars >>
      /\ RequestSent =>
           /\ SubmitPressed
           /\ fetch'.body.targetLanguages.t = "array"
           /\ fetch'.body.targetLanguages.items = modalSelected
           /\ Len(fetch'.body.targetLanguages.items) = 3
           /\ Distinct(fetch'.body.targetLanguages.items)
    ]_vars

C10_Witness ==
  /\ lastEvent.name = "submit"
  /\ Len(lastEvent.selection) = 3
  /\ Len(lastEvent.calls) = 2
  /\ lastEvent.calls[1] = [fn |-> "onSelectLanguages", arg |-> lastEvent.selection]
  /\ fetch.state = "sent"
  /\ fetch.body.targetLanguages = JArr(lastEvent.selection)
  /\ ~isModalOpen

----------------------------------------------------------------------------
(* Claims about concurrent requests *)

\* everything the handler keeps for request r
RequestState(r) ==
  << pc[r], body[r], rules[r], translateCalls[r], sent[r], outcome[r],
     thrown[r], response[r] >>

\* the message of request r to the model was built from r's payload alone,
\* on a chat session without history, with the configuration as written
OwnPromptFreshSession(r) ==
  \A i \in 1..Len(sent[r]) :
    /\ sent[r][i].history = << >>
    /\ sent[r][i].config = GenerationConfig
    /\ sent[r][i].prompt.text = body[r].text
    /\ sent[r][i].prompt.langs = body[r].targetLanguages.items

\* C11: requests are independent under any interleaving: a step of the
\* handler for one request changes nothing of another request; the message a
\* request sends to the model is its own prompt on a fresh chat session; two
\* requests with the same payload and the same model reply get the same
\* response; and the shared generation configuration is never changed.
C11_RequestsIndependent ==
  /\ [](/\ \A r \in ReqIds : OwnPromptFreshSession(r)
        /\ generationConfig = GenerationConfig
        /\ \A r1, r2 \in ReqIds :
             (Done(r1) /\ Done(r2) /\ body[r1] = body[r2] /\ outcome[r1] = outcome[r2])
               => response[r1] = response[r2])
  /\ [][ /\ generationConfig' = generationConfig
         /\ \A r \in ReqIds :
              (pc'[r] # pc[r]) =>
                 \A q \in ReqIds \ {r} : RequestState(q)' = RequestState(q)
     ]_vars

\* a request was handled from arrival to a 200 response while another,
\* with a different payload, is suspended in its model call
C11_Witness ==
  \E r1, r2 \in ReqIds :
    /\ r1 # r2
    /\ pc[r1] = "awaitModel" /\ Len(sent[r1]) = 1
    /\ Done(r2) /\ Len(sent[r2]) = 1 /\ response[r2].status = 200
    /\ body[r1] # body[r2]

----------------------------------------------------------------------------
(* Claims about the page *)

\* the step settles the page's fetch
FetchSettles == fetch.state # "none" /\ fetch'.state = "none"

\* the fetch has no response to give: it can only reject
NoResponseYet == fetch.state = "sent" \/ pc[fetch.req] # "done"

\* the route has answered the fetch with a status outside 200..299
AnsweredNotOk ==
  /\ fetch.state = "handling"
  /\ pc[fetch.req] = "done"
  /\ (response[fetch.req].status < 200 \/ response[fetch.req].status > 299)

\* the route has answered the fetch with a status in 200..299
AnsweredOk ==
  /\ fetch.state = "handling"
  /\ pc[fetch.req] = "done"
  /\ ResponseOk(response[fetch.req])

\* after the step the page shows the text-entry form, not loading, no
\* result, with translations as it was and not displayable
ShowsTextEntry ==
  /\ translations' = translations
  /\ ~TruthyValue(translations')
  /\ isLoading' = FALSE
  /\ FormVisible' /\ ~LoadingVisible' /\ ~ResultVisible'
  /\ fetch'.state = "none"

\* when the page's request fails an error message is set, isLoading is false
\* again and the text-entry form is displayed, with translations unchanged
C12_FailureShowsTextEntry ==
  [][ FetchSettles =>
        /\ NoResponseYet =>
             /\ error' = "Failed to fetch translations."
             /\ ShowsTextEntry
        /\ AnsweredNotOk =>
             /\ error' \in { response[fetch.req].body.error,
                             "Failed to fetch translations." }
             /\ ShowsTextEntry
        /\ (AnsweredOk /\ error' # "null") =>
             /\ error' = "Failed to fetch translations."
             /\ ShowsTextEntry
    ]_vars

\* after the step the page shows the text-entry form, not loading, no result,
\* and translations is null
BackOnTextEntry ==
  /\ translations' = [t |-> "null", keys |-> {}, values |-> "none"]
  /\ translations' = translations
  /\ isLoading' = FALSE
  /\ FormVisible' /\ ~LoadingVisible' /\ ~ResultVisible'
  /\ fetch'.state = "none"

\* C12: when the page's request fails, an error message is set ("Failed to
\* fetch translations." when the fetch or the parsing of the response throws,
\* the server's error text when the response is not OK), translations stays
\* null, isLoading is false again and the text-entry form is displayed.
C12_FailureReturnsToTextEntry ==
  [][ FetchSettles =>
        /\ NoResponseYet =>
             /\ error' = "Failed to fetch translations."
             /\ BackOnTextEntry
        /\ AnsweredNotOk =>
             /\ error' \in { response[fetch.req].body.error,
                             "Failed to fetch translations." }
             /\ BackOnTextEntry
        /\ (AnsweredOk /\ error' # "null") =>
             /\ error' = "Failed to fetch translations."
             /\ BackOnTextEntry
    ]_vars

----------------------------------------------------------------------------
(* Claims about the text-entry form *)

\* the step is a submission of the form
FormSubmitted ==
  /\ lastEvent'.name = "formSubmit"
  /\ << lastEvent, typed >>' # << lastEvent, typed >>

\* C13: the form calls onSubmit only when the text is non-empty after
\* trimming and its untrimmed length is at most 140; it passes on the trimmed
\* text, whose length is between 1 and 140 and which has no whitespace at its
\* ends; otherwise the submission does nothing.
C13_FormPassesTrimmedText ==
  [][ FormSubmitted =>
        IF typed'.core >= 1 /\ typed'.lead + typed'.core + typed'.trail <= 140
          THEN /\ lastEvent'.calls =
                    << [fn |-> "onSubmit",
                        arg |-> [t |-> "string", n |-> typed'.core, items |-> << >>]] >>
               /\ typed'.core >= 1 /\ typed'.core <= 140
               /\ inputText' = lastEvent'.calls[1].arg
               /\ isModalOpen'
          ELSE /\ lastEvent'.calls = << >>
               /\ UNCHANGED << pageVars, modalSelected, fetch, overlap, apiVars >>
    ]_vars

\* a text with whitespace at both ends was submitted and handed on trimmed
C13_Witness ==
  /\ lastEvent.name = "formSubmit"
  /\ typed.lead = 1 /\ typed.trail = 1 /\ typed.core = 1
  /\ Len(lastEvent.calls) = 1
  /\ inputText = [t |-> "string", n |-> 1, items |-> << >>]
  /\ isModalOpen

\* the picker's submission has been answered and the user has done nothing since
SubmissionSettled ==
  /\ lastEvent.name = "submit"
  /\ lastEvent.calls # << >>
  /\ ~isLoading

TranslationsSet == translations.t \notin {"null", "undefined"}
ErrorSet == error # "null"

\* C14: once languages are submitted and the fetch resolves or rejects, the
\* page leaves the loading state, and it is then in exactly one of two
\* outcomes: translations set and no error, or an error set and translations
\* null.
C14_LoadingEndsInOneOutcome ==
  /\ (isLoading ~> ~isLoading)
  /\ [](SubmissionSettled =>
          \/ TranslationsSet /\ ~ErrorSet
          \/ ErrorSet /\ ~TranslationsSet)

\* the loading state is always left
C14_LoadingEnds == isLoading ~> ~isLoading

\* the step is a click on Start Over
StartOverPressed == lastEvent' # lastEvent /\ lastEvent'.name = "startOver"

\* C15: Start Over resets the page to its initial state: inputText empty,
\* selectedLanguages empty, translations null, error null (the modal closed,
\* not loading), so the text-entry form is displayed; it sends no request.
C15_StartOverResets ==
  [][ StartOverPressed =>
        /\ inputText' = [t |-> "string", n |-> 0, items |-> << >>]
        /\ selectedLanguages' = << >>
        /\ translations' = [t |-> "null", keys |-> {}, values |-> "none"]
        /\ error' = "null"
        /\ isModalOpen' = FALSE
        /\ isLoading' = FALSE
        /\ modalSelected' = << >>
        /\ FormVisible' /\ ~ResultVisible' /\ ~LoadingVisible'
        /\ fetch.state = "none" /\ fetch' = fetch
        /\ UNCHANGED apiVars
    ]_vars

\* Start Over was pressed on a displayed result
C15_Witness ==
  /\ lastEvent.name = "startOver"
  /\ inputText.n = 0
  /\ selectedLanguages = << >>
  /\ translations.t = "null"
  /\ FormVisible

\* how many of the three main views the page displays
ViewsDisplayed ==
  (IF FormVisible THEN 1 ELSE 0) + (IF LoadingVisible THEN 1 ELSE 0)
    + (IF ResultVisible THEN 1 ELSE 0)

\* C16: the page always displays exactly one of its three main views (text
\* entry, "Translating...", the result); isLoading is never true while
\* translations is non-null, and translations non-null implies error null.
C16_ExactlyOneView ==
  /\ ViewsDisplayed = 1
  /\ ~(isLoading /\ translations.t # "null")
  /\ (translations.t # "null") => error = "null"

\* the page has a request in flight
InFlight == fetch.state # "none"

\* the requests the route is handling or has handled and not yet handed back
AtRoute == { r \in ReqIds : pc[r] # "idle" }

\* C17: a page never has more than one translation request in flight: from
\* the submission of the languages to the settlement of the fetch no user
\* event is enabled (the form and the result are not displayed, the picker
\* is closed), no second request is started, and the state the response
\* arrives in is the one the request was sent from.
C17_OneRequestInFlight ==
  /\ ~overlap
  /\ \A r \in AtRoute : Abandoned(r) \/ body[r] = fetch.body
  /\ InFlight =>
       /\ isLoading
       /\ ~FormVisible /\ ~ResultVisible /\ ~ModalVisible
       /\ lastEvent.name = "submit"
       /\ lastEvent.calls # << >>
       /\ selectedLanguages = lastEvent.calls[1].arg
       /\ fetch.body.targetLanguages.items = selectedLanguages
       /\ fetch.body.text = inputText
       /\ ~TruthyValue(translations)
       /\ error = "null"

\* the request is with the model while the page shows "Translating..."
C17_Witness ==
  /\ fetch.state = "handling"
  /\ pc[fetch.req] = "awaitModel"
  /\ isLoading
  /\ lastEvent.name = "submit"

\* C18: every request the page sends passes the route's validation: its text
\* is the page's inputText, the trimmed text last submitted, of 1 to 140
\* characters; its targetLanguages is the list of exactly 3 codes the picker
\* handed over; and the route never answers it with a 400.
C18_UiRequestsPassValidation ==
  /\ InFlight =>
       /\ fetch.body.kind = "object"
       /\ fetch.body.text = inputText
       /\ inputText.t = "string" /\ inputText.n >= 1 /\ inputText.n <= 140
       /\ fetch.body.targetLanguages.t = "array"
       /\ fetch.body.targetLanguages.items = lastEvent.selection
       /\ Len(fetch.body.targetLanguages.items) = 3
       /\ \A i \in 1..3 : fetch.body.targetLanguages.items[i] \in Codes
  /\ \A r \in ReqIds :
       Handled(r) =>
         /\ Abandoned(r) \/ body[r] = fetch.body
         /\ IsObject(body[r]) /\ TextValid(body[r].text)
         /\ body[r].targetLanguages.t = "array" /\ body[r].targetLanguages.n = 3
         /\ Validated(r) =>
              /\ rules[r] = << "text", "languages" >>
              /\ Len(translateCalls[r]) = 1
         /\ response[r].status # 400

\* a request with a text of 140 characters went through the UI and was
\* answered 200
C18_Witness ==
  /\ fetch.state = "handling"
  /\ pc[fetch.req] = "done"
  /\ body[fetch.req].text = [t |-> "string", n |-> 140, items |-> << >>]
  /\ response[fetch.req].status = 200
  /\ rules[fetch.req] = << "text", "languages" >>

\* the step is a click on Cancel in the picker
CancelPressed == lastEvent' # lastEvent /\ lastEvent'.name = "cancel"

\* the step opens the picker
ModalOpens == ~isModalOpen /\ isModalOpen'

\* the step closes the picker
ModalCloses == isModalOpen /\ ~isModalOpen'

\* C19: the picker's selection is cleared whenever the picker is closed (by
\* Cancel or after a submit), so it is empty every time the picker opens;
\* Cancel sends no request and leaves inputText, translations and error as
\* they were.
C19_ClosedPickerIsCleared ==
  /\ [](~isModalOpen => modalSelected = << >>)
  /\ [][ /\ ModalCloses => modalSelected' = << >>
         /\ ModalOpens => (modalSelected = << >> /\ modalSelected' = << >>)
         /\ CancelPressed =>
              /\ ModalCloses
              /\ fetch' = fetch
              /\ UNCHANGED << inputText, translations, error, selectedLanguages,
                              isLoading, apiVars >>
     ]_vars

\* the picker was cancelled after a text had been submitted
C19_Witness ==
  /\ lastEvent.name = "cancel"
  /\ ~isModalOpen
  /\ modalSelected = << >>
  /\ inputText.n >= 1
  /\ fetch.state = "none"

====
